---------------------------- MODULE Spec2Model ----------------------------
(***************************************************************************)
(* Model of bots/controllers/generic/activity_simulator.py: the            *)
(* ActivitySimulator controller (round-trip decision engine, staleness     *)
(* monitor, price selector, sizing function, position oracle) together     *)
(* with the external executor framework, exchange and clock it talks to.   *)
(*                                                                         *)
(* Numbers.  Decimal prices, notionals and amounts are integers on a grid  *)
(* on which every Decimal product and quotient the code forms is exact:    *)
(* notionals 6 and 12, prices 1, 3 and 6, spread 5000 bps of mid 2.        *)
(* Seconds are integers.                                                   *)
(***************************************************************************)
EXTENDS Integers, Sequences, FiniteSets, TLC

(***************************************************************************)
(* Bounds of the model.                                                    *)
(***************************************************************************)
MaxOrders == 2          \* executors the framework holds at a time
MaxTime == 6            \* last clock reading
MaxRoundtrips == 2      \* cap of completed_roundtrips
MaxReplaced == 2        \* cap of replaced_orders
MaxPosition == 6        \* position limit of the exchange in the fair run

(***************************************************************************)
(* ActivitySimulatorConfig (values of the run; defaults scaled to the grid) *)
(***************************************************************************)
max_orderbook_depth == 2
spread_bps == 5000
min_order_size_quote == 6
max_order_size_quote == 12
order_interval_seconds == 2
stale_order_seconds == 3
BpsDenominator == 10000

Slots == 1..MaxOrders
BUY == "BUY"
SELL == "SELL"
NoSide == "None"
OPEN == "OPEN"
CLOSE == "CLOSE"

VARIABLES
    last_order_time,        \* self._last_order_time
    last_open_side,         \* self._last_open_side
    completed_roundtrips,   \* self._completed_roundtrips
    replaced_orders,        \* self._replaced_orders
    executors,              \* the framework's executors, by slot
    position,               \* the exchange's signed position
    now,                    \* market_data_provider.time()
    ret,                    \* what determine_executor_actions has just returned
    opens,                  \* number of OPEN intents emitted so far (history)
    emitted_side,           \* side of the last OPEN intent emitted (history)
    emitted_time            \* timestamp of the last intent emitted (history)

engine == <<last_order_time, last_open_side, completed_roundtrips, replaced_orders>>
vars == <<last_order_time, last_open_side, completed_roundtrips, replaced_orders,
          executors, position, now, ret, opens, emitted_side, emitted_time>>

Min(a, b) == IF a <= b THEN a ELSE b
Abs(x) == IF x < 0 THEN -x ELSE x

(***************************************************************************)
(* External reads.  A read returns a value, returns None, or raises.       *)
(***************************************************************************)
MidReads ==
    { [kind |-> "raise", val |-> 0], [kind |-> "none", val |-> 0],
      [kind |-> "val", val |-> 0], [kind |-> "val", val |-> 2] }
ValidMidReads == { m \in MidReads : m.kind = "val" /\ m.val > 0 }

\* The connector as get_exchange_position finds it: a position from
\* get_position or _perpetual_trading, none from either, or an exception.
ConnectorReads == { "position", "no_position", "raise" }
TrueConnectorReads == { "position" }

AskLevels == <<3, 6, 7>>
BidLevels == <<1>>
Levels(side) == IF side = BUY THEN AskLevels ELSE BidLevels
\* get_order_book: the book shows up to b levels of each side, or the read
\* raises.  ask_entries()/bid_entries() list them best first.
BookReads ==
    [kind : {"ok"}, b : {0, 1, 3}] \cup { [kind |-> "raise", b |-> 0] }
Entries(book, side) == SubSeq(Levels(side), 1, Min(book.b, Len(Levels(side))))
\* The draws of random.choice.
Picks == 1..3

FreeExecutor ==
    [status |-> "free", timestamp |-> 0, side |-> BUY, amount |-> 0,
     position_action |-> OPEN, stop |-> FALSE]

\* No call has just returned: the framework has taken the actions.
Unread == [kind |-> "unread", val |-> 0]
NoReturn ==
    [kind |-> "idle", actions |-> <<>>, reached |-> FALSE, position |-> 0,
     raised |-> "no", mid |-> Unread]

Init ==
    /\ last_order_time = 0
    /\ last_open_side = NoSide
    /\ completed_roundtrips = 0
    /\ replaced_orders = 0
    /\ executors = [i \in Slots |-> FreeExecutor]
    /\ position = 0
    /\ now = 0
    /\ ret = NoReturn
    /\ opens = 0
    /\ emitted_side = NoSide
    /\ emitted_time = 0

(***************************************************************************)
(* ActivitySimulator                                                       *)
(***************************************************************************)
\* executors_info entries with is_active: the executors the framework shows
\* as active.  A "pending" executor holds a live order the view does not
\* show yet; a finished executor is not active and its slot is free.
active_executors == { i \in Slots : executors[i].status = "active" }

\* pos.amount, or Decimal("0") when no position is found or the connector raises.
get_exchange_position(conn) ==
    IF conn = "position" THEN position ELSE 0

generate_random_size_quote == { min_order_size_quote, max_order_size_quote }

\* Line 92 drawing among all the entries, not the best `depth`.
get_crossing_price_NoDepth(side, book, pick) ==
    IF book.kind = "raise" THEN <<>>
    ELSE LET entries == Entries(book, side)
         IN  IF entries # <<>>
             THEN <<entries[((pick - 1) % Len(entries)) + 1]>>
             ELSE <<>>

\* The price of the entry random.choice draws among the best `depth`
\* entries, as a sequence of length <= 1: <<>> is None.
get_crossing_price(side, book, pick) ==
    IF book.kind = "raise" THEN <<>>
    ELSE LET entries == Entries(book, side)
         IN  IF entries # <<>>
             THEN LET depth == Min(max_orderbook_depth, Len(entries))
                  IN  <<entries[((pick - 1) % depth) + 1]>>
             ELSE <<>>

\* Line 107 with the spread taken off a BUY and added to a SELL.
calculate_order_price_SwappedSpread(side, use_orderbook_prices, book, pick, mid2) ==
    LET crossing == IF use_orderbook_prices THEN get_crossing_price(side, book, pick)
                    ELSE <<>>
    IN
    IF crossing # <<>> /\ crossing[1] # 0
    THEN [raised |-> FALSE, price |-> crossing[1]]
    ELSE IF mid2.kind # "val"
         THEN [raised |-> TRUE, price |-> 0]
         ELSE [raised |-> FALSE,
               price |-> IF side = BUY
                         THEN (mid2.val * (BpsDenominator - spread_bps)) \div BpsDenominator
                         ELSE (mid2.val * (BpsDenominator + spread_bps)) \div BpsDenominator]

\* [raised, price]: the price returned, or raised when the fallback's
\* mid-price read raises or returns None (None * Decimal is a TypeError).
calculate_order_price(side, use_orderbook_prices, book, pick, mid2) ==
    LET crossing == IF use_orderbook_prices THEN get_crossing_price(side, book, pick)
                    ELSE <<>>
    IN
    IF crossing # <<>> /\ crossing[1] # 0
    THEN [raised |-> FALSE, price |-> crossing[1]]
    ELSE IF mid2.kind # "val"
         THEN [raised |-> TRUE, price |-> 0]
         ELSE [raised |-> FALSE,
               price |-> IF side = BUY
                         THEN (mid2.val * (BpsDenominator + spread_bps)) \div BpsDenominator
                         ELSE (mid2.val * (BpsDenominator - spread_bps)) \div BpsDenominator]

\* The comparison of line 113 written strict.
IsStale_Strict(i) == now - executors[i].timestamp > stale_order_seconds

\* Whether check_stale_executors stops active executor i.
IsStale(i) == now - executors[i].timestamp >= stale_order_seconds

RECURSIVE StaleFrom(_)
\* The ids the loop of check_stale_executors stops, in the order of the list.
StaleFrom(i) ==
    IF i > MaxOrders THEN <<>>
    ELSE IF i \in active_executors /\ IsStale(i)
         THEN <<i>> \o StaleFrom(i + 1)
         ELSE StaleFrom(i + 1)

StopExecutorAction(id) == [type |-> "Stop", executor_id |-> id, keep_position |-> TRUE]

\* Line 117 written `=` for `+=`: the counter is set to the stops of this run.
check_stale_executors_Assign ==
    LET ids == StaleFrom(1)
    IN  [actions |-> [k \in 1..Len(ids) |-> StopExecutorAction(ids[k])],
         replaced_orders |-> Len(ids)]

\* Line 117 outside the `if`: every active executor is counted.
check_stale_executors_CountsAll ==
    LET ids == StaleFrom(1)
    IN  [actions |-> [k \in 1..Len(ids) |-> StopExecutorAction(ids[k])],
         replaced_orders |-> replaced_orders + Cardinality(active_executors)]

\* [actions, replaced_orders]: the list returned and the counter it leaves.
check_stale_executors ==
    LET ids == StaleFrom(1)
    IN  [actions |-> [k \in 1..Len(ids) |-> StopExecutorAction(ids[k])],
         replaced_orders |-> replaced_orders + Len(ids)]

\* Line 122 dropped: only the active executors gate the tick.
should_place_order_NoInterval == Cardinality(active_executors) = 0

should_place_order ==
    /\ now - last_order_time >= order_interval_seconds
    /\ Cardinality(active_executors) = 0

\* Line 136 testing for None only.
MidRefused_NoneOnly(mid1) == mid1.kind = "none"

\* `not mid_price or mid_price <= 0` on a read that returned.
MidRefused(mid1) == mid1.kind = "none" \/ mid1.val = 0 \/ mid1.val <= 0

CreateExecutorAction(ts, side, amount, price, pa) ==
    [type |-> "Create", timestamp |-> ts, side |-> side, amount |-> amount,
     price |-> price, position_action |-> pa]

Outcome(kind, actions, reached, pos, raised, lot, los, cr, ro) ==
    [kind |-> kind, actions |-> actions, reached |-> reached, position |-> pos,
     raised |-> raised, last_order_time |-> lot, last_open_side |-> los,
     completed_roundtrips |-> cr, replaced_orders |-> ro]

\* Line 145 taking the side of the last OPEN again.
DecideOpen_SameSide(rnd_side, size_quote, use_orderbook_prices, book, pick, mid2) ==
    LET side == IF last_open_side = NoSide THEN rnd_side ELSE last_open_side
        cr == IF last_open_side = NoSide THEN completed_roundtrips
              ELSE completed_roundtrips + 1
        p == calculate_order_price(side, use_orderbook_prices, book, pick, mid2)
    IN  IF p.raised
        THEN Outcome("raised", <<>>, TRUE, 0, "price",
                     last_order_time, last_open_side, cr, replaced_orders)
        ELSE IF p.price = 0
        THEN Outcome("raised", <<>>, TRUE, 0, "amount",
                     last_order_time, last_open_side, cr, replaced_orders)
        ELSE Outcome("order",
                     <<CreateExecutorAction(now, side, size_quote \div p.price,
                                            p.price, OPEN)>>,
                     TRUE, 0, "no", now, side, cr, replaced_orders)

\* Lines 141-152: position == 0.  The counter is written before the price is
\* computed, last_open_side after the division.
DecideOpen(rnd_side, size_quote, use_orderbook_prices, book, pick, mid2) ==
    LET side == IF last_open_side = NoSide THEN rnd_side
                ELSE IF last_open_side = BUY THEN SELL ELSE BUY
        cr == IF last_open_side = NoSide THEN completed_roundtrips
              ELSE completed_roundtrips + 1
        p == calculate_order_price(side, use_orderbook_prices, book, pick, mid2)
    IN  IF p.raised
        THEN Outcome("raised", <<>>, TRUE, 0, "price",
                     last_order_time, last_open_side, cr, replaced_orders)
        ELSE IF p.price = 0     \* size_quote / 0: decimal.DivisionByZero
        THEN Outcome("raised", <<>>, TRUE, 0, "amount",
                     last_order_time, last_open_side, cr, replaced_orders)
        ELSE Outcome("order",
                     <<CreateExecutorAction(now, side, size_quote \div p.price,
                                            p.price, OPEN)>>,
                     TRUE, 0, "no", now, side, cr, replaced_orders)

\* The CLOSE branch writing last_open_side as the OPEN branch does.
DecideClose_SetsSide(pos, use_orderbook_prices, book, pick, mid2) ==
    LET side == IF pos < 0 THEN BUY ELSE SELL
        p == calculate_order_price(side, use_orderbook_prices, book, pick, mid2)
    IN  IF p.raised
        THEN Outcome("raised", <<>>, TRUE, pos, "price",
                     last_order_time, last_open_side, completed_roundtrips,
                     replaced_orders)
        ELSE Outcome("order",
                     <<CreateExecutorAction(now, side, Abs(pos), p.price, CLOSE)>>,
                     TRUE, pos, "no", now, side, completed_roundtrips,
                     replaced_orders)

\* Lines 153-157: position != 0.
DecideClose(pos, use_orderbook_prices, book, pick, mid2) ==
    LET side == IF pos < 0 THEN BUY ELSE SELL
        p == calculate_order_price(side, use_orderbook_prices, book, pick, mid2)
    IN  IF p.raised
        THEN Outcome("raised", <<>>, TRUE, pos, "price",
                     last_order_time, last_open_side, completed_roundtrips,
                     replaced_orders)
        ELSE Outcome("order",
                     <<CreateExecutorAction(now, side, Abs(pos), p.price, CLOSE)>>,
                     TRUE, pos, "no", now, last_open_side, completed_roundtrips,
                     replaced_orders)

\* The return value (or the exception) of one call, and the engine state it leaves.
determine_executor_actions(mid1, conn, rnd_side, size_quote, use_orderbook_prices, book, pick, mid2) ==
    LET stale == check_stale_executors
    IN  IF stale.actions # <<>>
        THEN Outcome("stale", stale.actions, FALSE, 0, "no", last_order_time,
                     last_open_side, completed_roundtrips, stale.replaced_orders)
        ELSE IF ~should_place_order
        THEN Outcome("gated", <<>>, FALSE, 0, "no", last_order_time, last_open_side,
                     completed_roundtrips, stale.replaced_orders)
        ELSE IF mid1.kind = "raise"
        THEN Outcome("raised", <<>>, FALSE, 0, "mid", last_order_time, last_open_side,
                     completed_roundtrips, stale.replaced_orders)
        ELSE IF MidRefused(mid1)
        THEN Outcome("nomid", <<>>, FALSE, 0, "no", last_order_time, last_open_side,
                     completed_roundtrips, stale.replaced_orders)
        ELSE LET pos == get_exchange_position(conn)
             IN  IF pos = 0
                 THEN DecideOpen(rnd_side, size_quote, use_orderbook_prices, book,
                                 pick, mid2)
                 ELSE DecideClose(pos, use_orderbook_prices, book, pick, mid2)

(***************************************************************************)
(* One tick: the framework calls determine_executor_actions and takes the  *)
(* actions it returns.  A CreateExecutorAction becomes an executor with a  *)
(* live order that the view does not show yet; a StopExecutorAction is     *)
(* noted on its executor.                                                  *)
(***************************************************************************)
FreeSlots == { i \in Slots : executors[i].status = "free" }
LowestFree == CHOOSE i \in FreeSlots : \A j \in FreeSlots : i <= j
StopIds(actions) == { actions[k].executor_id : k \in 1..Len(actions) }

Handoff(out) ==
    IF out.kind = "stale"
    THEN [i \in Slots |-> IF i \in StopIds(out.actions)
                          THEN [executors[i] EXCEPT !.stop = TRUE]
                          ELSE executors[i]]
    ELSE IF out.kind = "order"
    THEN LET a == out.actions[1]
         IN  [executors EXCEPT ![LowestFree] =
                 [status |-> "pending", timestamp |-> a.timestamp, side |-> a.side,
                  amount |-> a.amount, position_action |-> a.position_action,
                  stop |-> FALSE]]
    ELSE executors

EmitsOpen(out) == out.kind = "order" /\ out.actions[1].position_action = OPEN

\* ret keeps, with what the call returned, the mid-price the tick read at
\* line 133 (Unread when it returned before) and the oracle's reading.
\* The diagnostic counters, which no decision reads, are followed up to
\* their caps: a tick that would pass a cap is left out.  A run that does
\* not follow them (counted = FALSE) leaves them as they are.
TickWith(out, mid1, counted) ==
    /\ out.kind = "order" => FreeSlots # {}
    /\ counted => (out.completed_roundtrips <= MaxRoundtrips
                     /\ out.replaced_orders <= MaxReplaced)
    /\ last_order_time' = out.last_order_time
    /\ last_open_side' = out.last_open_side
    /\ completed_roundtrips' = IF counted THEN out.completed_roundtrips
                               ELSE completed_roundtrips
    /\ replaced_orders' = IF counted THEN out.replaced_orders ELSE replaced_orders
    /\ executors' = Handoff(out)
    /\ ret' = [kind |-> out.kind, actions |-> out.actions, reached |-> out.reached,
               position |-> out.position, raised |-> out.raised, mid |-> mid1]
    /\ opens' = IF counted /\ EmitsOpen(out) THEN opens + 1 ELSE opens
    /\ emitted_side' = IF EmitsOpen(out) THEN out.actions[1].side ELSE emitted_side
    /\ emitted_time' = IF out.kind = "order" THEN out.actions[1].timestamp
                       ELSE emitted_time
    /\ UNCHANGED <<position, now>>

\* The reads and draws of a tick, made only as far as the tick gets to
\* make them: mid-prices from MR, connector answers from CR.
AnyMid == [kind |-> "none", val |-> 0]
AnyBook == [kind |-> "raise", b |-> 0]
TickReading(MR, CR, counted) ==
    IF check_stale_executors.actions # <<>> \/ ~should_place_order
    THEN TickWith(determine_executor_actions(AnyMid, "raise", BUY, min_order_size_quote,
                                             FALSE, AnyBook, 1, AnyMid),
                  Unread, counted)
    ELSE \E mid1 \in MR :
        IF mid1.kind = "raise" \/ MidRefused(mid1)
        THEN TickWith(determine_executor_actions(mid1, "raise", BUY,
                                                 min_order_size_quote, FALSE, AnyBook,
                                                 1, AnyMid),
                      mid1, counted)
        ELSE \E conn \in CR :
            LET flat == get_exchange_position(conn) = 0
            IN  \E rnd_side \in IF flat /\ last_open_side = NoSide
                                THEN {BUY, SELL} ELSE {BUY},
                   size_quote \in IF flat THEN generate_random_size_quote
                                  ELSE {min_order_size_quote},
                   use_orderbook_prices \in BOOLEAN :
                \E book \in IF use_orderbook_prices THEN BookReads ELSE {AnyBook} :
                IF use_orderbook_prices /\ book.kind = "ok" /\ book.b > 0
                THEN \E pick \in Picks :
                        TickWith(determine_executor_actions(mid1, conn, rnd_side,
                                     size_quote, use_orderbook_prices, book, pick,
                                     AnyMid),
                                 mid1, counted)
                ELSE \E mid2 \in MR :
                        TickWith(determine_executor_actions(mid1, conn, rnd_side,
                                     size_quote, use_orderbook_prices, book, 1, mid2),
                                 mid1, counted)

Tick == TickReading(MidReads, ConnectorReads, TRUE)

(***************************************************************************)
(* The executor framework, the exchange and the clock.                     *)
(***************************************************************************)
Live(i) == executors[i].status \in {"pending", "active"}
Signed(e) == IF e.side = BUY THEN e.amount ELSE -e.amount

\* The executor of an emitted intent shows up in executors_info as active.
Appear(i) ==
    /\ executors[i].status = "pending"
    /\ executors' = [executors EXCEPT ![i].status = "active"]
    /\ ret' = NoReturn
    /\ UNCHANGED <<engine, position, now, opens, emitted_side, emitted_time>>

\* The order of executor i fills for its amount; the executor finishes.
Fill(i) ==
    /\ Live(i)
    /\ position' = position + Signed(executors[i])
    /\ executors' = [executors EXCEPT ![i] = FreeExecutor]
    /\ ret' = NoReturn
    /\ UNCHANGED <<engine, now, opens, emitted_side, emitted_time>>

\* The framework carries out a StopExecutorAction: the resting order is
\* pulled, the position kept, the executor finishes.
ProcessStop(i) ==
    /\ executors[i].status = "active"
    /\ executors[i].stop
    /\ executors' = [executors EXCEPT ![i] = FreeExecutor]
    /\ ret' = NoReturn
    /\ UNCHANGED <<engine, position, now, opens, emitted_side, emitted_time>>

AdvanceTime ==
    /\ now < MaxTime
    /\ now' = now + 1
    /\ ret' = NoReturn
    /\ UNCHANGED <<engine, executors, position, opens, emitted_side, emitted_time>>

Next ==
    \/ Tick
    \/ \E i \in Slots : Appear(i)
    \/ \E i \in Slots : Fill(i)
    \/ \E i \in Slots : ProcessStop(i)
    \/ AdvanceTime

Spec == Init /\ [][Next]_vars

(***************************************************************************)
(* The run of the liveness claim: ticks recur, the clock keeps advancing,  *)
(* every mid-price read is valid and the oracle reads the true position.   *)
(* Past Window the clock is followed by moving every timestamp back        *)
(* instead: the code reads timestamps only in differences from the clock,  *)
(* and a difference of Window is past both thresholds.                     *)
(***************************************************************************)
Window == IF stale_order_seconds >= order_interval_seconds
          THEN stale_order_seconds ELSE order_interval_seconds
Back(t) == IF t > 0 THEN t - 1 ELSE 0

FairAdvanceTime ==
    /\ now < Window
    /\ now' = now + 1
    /\ ret' = NoReturn
    /\ UNCHANGED <<engine, executors, position, opens, emitted_side, emitted_time>>

SlideTime ==
    /\ now = Window
    /\ last_order_time' = Back(last_order_time)
    /\ executors' = [i \in Slots |->
                        [executors[i] EXCEPT !.timestamp = Back(executors[i].timestamp)]]
    /\ ret' = NoReturn
    /\ emitted_time' = Back(emitted_time)
    /\ UNCHANGED <<last_open_side, completed_roundtrips, replaced_orders, position,
                   now, opens, emitted_side>>

FairTick == TickReading(ValidMidReads, TrueConnectorReads, FALSE)

\* The exchange fills no order that would take the position past its limit.
FairFill(i) ==
    /\ Abs(position + Signed(executors[i])) <= MaxPosition
    /\ Fill(i)

Clock == FairAdvanceTime \/ SlideTime

FillClose(i) == executors[i].position_action = CLOSE /\ FairFill(i)

FairNext ==
    \/ FairTick
    \/ \E i \in Slots : Appear(i)
    \/ \E i \in Slots : FairFill(i)
    \/ \E i \in Slots : ProcessStop(i)
    \/ Clock

Fairness ==
    /\ WF_vars(FairTick)
    /\ WF_vars(Clock)
    /\ \A i \in Slots : WF_vars(Appear(i))
    /\ \A i \in Slots : WF_vars(ProcessStop(i))
    /\ \A i \in Slots : SF_vars(FillClose(i))

FairSpec == Init /\ [][FairNext]_vars /\ Fairness

(***************************************************************************)
(* The Price Selector on its own: calculate_order_price applied to every   *)
(* side, setting, book read, draw and fallback mid-price read; ret keeps   *)
(* the inputs of the call with its result.                                 *)
(***************************************************************************)
SelectPrice ==
    /\ \E side \in {BUY, SELL}, use_orderbook_prices \in BOOLEAN, book \in BookReads,
          pick \in Picks, mid2 \in MidReads :
          ret' = [kind |-> "price", side |-> side,
                  use_orderbook_prices |-> use_orderbook_prices, book |-> book,
                  pick |-> pick, mid |-> mid2,
                  result |-> calculate_order_price(side, use_orderbook_prices, book,
                                                   pick, mid2)]
    /\ UNCHANGED <<engine, executors, position, now, opens, emitted_side, emitted_time>>

PriceSpec == Init /\ [][SelectPrice]_vars


(***************************************************************************)
(* Properties.  A step with ret' # NoReturn is a tick; ret holds its       *)
(* return value until the framework, the exchange or the clock moves.      *)
(***************************************************************************)
IsTick(r) == r.kind # "idle"
Creates(r) == { k \in 1..Len(r.actions) : r.actions[k].type = "Create" }
Stops(r) == { k \in 1..Len(r.actions) : r.actions[k].type = "Stop" }
LiveIntents == { i \in Slots : Live(i) }
\* The active executors of age >= stale_order_seconds, and the younger ones.
StaleActive ==
    { i \in Slots : executors[i].status = "active"
                    /\ now - executors[i].timestamp >= stale_order_seconds }
MidUnavailable(m) == m.kind \in {"none", "raise"} \/ (m.kind = "val" /\ m.val <= 0)

\* C1: a tick that reaches the decision step with an oracle position other
\* than 0 emits exactly one CreateOrder: a CLOSE, BUY for a negative and SELL
\* for a positive position, of amount |position|.
C1_CloseExact ==
    (ret.reached /\ ret.position # 0) =>
        /\ Len(ret.actions) = 1
        /\ ret.actions[1].type = "Create"
        /\ ret.actions[1].position_action = CLOSE
        /\ ret.actions[1].side = (IF ret.position < 0 THEN BUY ELSE SELL)
        /\ ret.actions[1].amount = Abs(ret.position)

\* C2: a tick that reaches the decision step with oracle position 0 and
\* last_open_side set emits an OPEN on the opposite side, adds exactly 1 to
\* completed_roundtrips and sets last_open_side to the emitted side.
C2_ReverseOpen ==
    [][ (ret'.reached /\ ret'.position = 0 /\ last_open_side # NoSide) =>
            /\ Len(ret'.actions) = 1
            /\ ret'.actions[1].type = "Create"
            /\ ret'.actions[1].position_action = OPEN
            /\ ret'.actions[1].side = (IF last_open_side = BUY THEN SELL ELSE BUY)
            /\ completed_roundtrips' = completed_roundtrips + 1
            /\ last_open_side' = ret'.actions[1].side ]_vars

\* C3: a tick emits no CreateOrder when an executor is active, when less
\* than order_interval_seconds have passed since last_order_time, or when
\* the mid-price it read is unavailable or <= 0.
C3_NoOrderWhenGated ==
    [][ ( /\ IsTick(ret')
          /\ \/ active_executors # {}
             \/ now - last_order_time < order_interval_seconds
             \/ MidUnavailable(ret'.mid) )
        => Creates(ret') = {} ]_vars

\* C3 witness: a tick has returned nothing, the interval elapsed and the
\* position open, because an executor is active.
C3_Witness ==
    /\ ret.kind = "gated"
    /\ ret.actions = <<>>
    /\ active_executors # {}
    /\ now - last_order_time >= order_interval_seconds
    /\ position # 0

\* C4: in a tick with an active executor of age >= stale_order_seconds the
\* actions are one keep-position cancel per such executor and nothing else
\* (none for a younger executor, no CreateOrder), and replaced_orders grows
\* by the number of cancels.
C4_StaleCancels ==
    [][ (IsTick(ret') /\ StaleActive # {}) =>
            /\ Creates(ret') = {}
            /\ Len(ret'.actions) = Cardinality(StaleActive)
            /\ { ret'.actions[k].executor_id : k \in Stops(ret') } = StaleActive
            /\ \A k \in 1..Len(ret'.actions) :
                   ret'.actions[k].type = "Stop" /\ ret'.actions[k].keep_position
            /\ replaced_orders' = replaced_orders + Len(ret'.actions) ]_vars

\* C4 witness: a tick has cancelled an executor of age exactly
\* stale_order_seconds and left a younger active executor alone.
C4_Witness ==
    /\ ret.kind = "stale"
    /\ Len(ret.actions) = 1
    /\ now - executors[ret.actions[1].executor_id].timestamp = stale_order_seconds
    /\ \E j \in active_executors : ~executors[j].stop
    /\ replaced_orders = 1

\* C5: the engine emits no CreateOrder while an intent it emitted earlier is
\* live, so no two order intents of the engine are live at once.
C5_OneLiveIntent == Cardinality(LiveIntents) <= 1

\* What the gate of line 123 does ensure: a CreateOrder is emitted only in a
\* tick whose active-executor view is empty, so every intent still live at
\* that tick is one the view does not show yet.
NoOrderWhileVisible ==
    [][ Creates(ret') # {} =>
            \A i \in Slots : Live(i) => executors[i].status = "pending" ]_vars

\* An order has just been emitted while an earlier intent, not yet visible,
\* is live.
OrderOverPending ==
    /\ ret.kind = "order"
    /\ Cardinality(LiveIntents) = 2
    /\ \E i \in Slots : executors[i].status = "pending" /\ executors[i].timestamp < now

\* C7: the magnitude of the position never exceeds the amount of one
\* maximum-size OPEN order, whatever the oracle reads.
MaxOpenAmount == max_order_size_quote \div BidLevels[Len(BidLevels)]
C7_NoRunaway == Abs(position) <= MaxOpenAmount

\* C8: a run of the staleness monitor that directly follows another, the
\* clock and the active executors unchanged, emits no cancel and leaves
\* replaced_orders as it is.
C8_StaleIdempotent ==
    [][ (IsTick(ret) /\ IsTick(ret')) =>
            (Stops(ret') = {} /\ replaced_orders' = replaced_orders) ]_vars

\* C9: completed_roundtrips is max(0, number of OPEN intents emitted - 1).
C9_RoundtripCount ==
    completed_roundtrips = (IF opens = 0 THEN 0 ELSE opens - 1)

\* C10: every tick returns normally, whatever its reads do, and builds no
\* order from an unavailable price.
C10_NoErrorEscapes ==
    IsTick(ret) =>
        /\ ret.kind # "raised"
        /\ \A k \in Creates(ret) : ret.actions[k].price > 0


\* C6: under the fairness of FairSpec a non-zero position leads to a zero
\* position.
C6_BackToFlat == (position # 0) ~> (position = 0)

\* An order has just been emitted while an earlier intent is still live.
Overlap == ret.kind = "order" /\ Cardinality(LiveIntents) >= 2

\* Every run that keeps the position from zero passes through an overlap:
\* a non-zero position leads to a zero position or to an order emitted over
\* an earlier intent that is still live.
FlatOrOverlap == (position # 0) ~> (position = 0 \/ Overlap)

\* The position is flat again after a CLOSE has filled.
FlatAgain ==
    /\ position = 0
    /\ last_open_side # NoSide
    /\ last_order_time > 0
    /\ LiveIntents = {}

\* C11: a tick that reaches the decision step with oracle position 0 and
\* last_open_side unset emits one OPEN, BUY or SELL, of amount notional /
\* price for a notional within [min_order_size_quote, max_order_size_quote],
\* sets last_open_side to its side and leaves completed_roundtrips.
C11_ColdStart ==
    [][ (ret'.reached /\ ret'.position = 0 /\ last_open_side = NoSide) =>
            /\ Len(ret'.actions) = 1
            /\ ret'.actions[1].type = "Create"
            /\ ret'.actions[1].position_action = OPEN
            /\ ret'.actions[1].side \in {BUY, SELL}
            /\ ret'.actions[1].amount * ret'.actions[1].price
                   \in min_order_size_quote..max_order_size_quote
            /\ last_open_side' = ret'.actions[1].side
            /\ completed_roundtrips' = completed_roundtrips ]_vars

\* C13: a tick that emits a CLOSE leaves last_open_side, completed_roundtrips
\* and replaced_orders as they are and sets last_order_time to the timestamp
\* of the emitted intent.
C13_CloseFrame ==
    [][ (Creates(ret') # {} /\ ret'.actions[1].position_action = CLOSE) =>
            /\ last_open_side' = last_open_side
            /\ completed_roundtrips' = completed_roundtrips
            /\ replaced_orders' = replaced_orders
            /\ last_order_time' = ret'.actions[1].timestamp ]_vars

\* C13 witness: a CLOSE has just been emitted on the side opposite to the
\* last OPEN, and last_open_side still names the OPEN.
C13_Witness ==
    /\ ret.kind = "order"
    /\ ret.actions[1].position_action = CLOSE
    /\ ret.actions[1].side # last_open_side
    /\ last_open_side # NoSide
    /\ last_order_time = now
    /\ last_order_time > order_interval_seconds

\* C14: last_open_side is the side of the last OPEN emitted (unset iff none
\* was), and an OPEN is emitted on the side opposite to the OPEN before it.
C14_OpensAlternate ==
    /\ last_open_side = emitted_side
    /\ opens = 0
    /\ [][ /\ last_open_side' = emitted_side'
           /\ (last_open_side' = NoSide) <=> (opens' = 0)
           /\ (Creates(ret') # {} /\ ret'.actions[1].position_action = OPEN
                 /\ emitted_side # NoSide)
               => ret'.actions[1].side # emitted_side ]_vars

\* C14 witness: a second OPEN has just been emitted after the first one was
\* cancelled as stale without a fill.
C14_Witness ==
    /\ ret.kind = "order"
    /\ ret.actions[1].position_action = OPEN
    /\ opens = 2
    /\ position = 0
    /\ replaced_orders > 0

\* C15: last_order_time is the timestamp of the last intent emitted (0 before
\* the first), and the timestamp of an emitted intent is at least
\* order_interval_seconds after it.
C15_MinSpacing ==
    /\ last_order_time = emitted_time
    /\ [][ /\ last_order_time' = emitted_time'
           /\ Creates(ret') # {} =>
                  ret'.actions[1].timestamp - emitted_time >= order_interval_seconds
         ]_vars

\* C15 witness: an intent has just been emitted exactly order_interval_seconds
\* after an earlier one that is still live.
C15_Witness ==
    /\ ret.kind = "order"
    /\ emitted_time = now
    /\ \E i \in Slots : /\ Live(i)
                        /\ executors[i].timestamp > 0
                        /\ now - executors[i].timestamp = order_interval_seconds

\* C16: completed_roundtrips and replaced_orders start at 0 and no step
\* lowers either.
C16_CountersMonotone ==
    /\ completed_roundtrips = 0
    /\ replaced_orders = 0
    /\ [][ /\ completed_roundtrips' >= completed_roundtrips
           /\ replaced_orders' >= replaced_orders ]_vars

\* C16 witness: both counters have grown.
C16_Witness == completed_roundtrips > 0 /\ replaced_orders > 0

\* C18: a tick that returns the empty action list leaves last_order_time,
\* last_open_side, completed_roundtrips and replaced_orders unchanged.
C18_EmptyTickFrame ==
    [][ (IsTick(ret') /\ ret'.kind # "raised" /\ ret'.actions = <<>>) =>
            UNCHANGED engine ]_vars

\* C18 witness: a tick has returned nothing on a non-positive mid-price, with
\* engine state that earlier ticks have written.
C18_Witness ==
    /\ ret.kind = "nomid"
    /\ ret.mid.kind = "val"
    /\ last_open_side # NoSide
    /\ completed_roundtrips > 0
    /\ last_order_time > 0

\* C19: replaced_orders counts each cancelled executor once: a tick adds to
\* it the number of executors it cancels that no earlier tick has cancelled.
C19_CancelsCountedOnce ==
    [][ replaced_orders' = replaced_orders
            + Cardinality({ i \in Slots : /\ ~executors[i].stop
                                          /\ \E k \in Stops(ret') :
                                                ret'.actions[k].executor_id = i })
      ]_vars

\* The book gives no price: pricing by the book is off, the read fails, or
\* the opposing side is empty.
NoBookPrice(r) ==
    \/ ~r.use_orderbook_prices
    \/ r.book.kind = "raise"
    \/ Entries(r.book, r.side) = <<>>

\* C12: with book pricing on and a non-empty opposing side the price returned
\* is one of the best N entries of that side, N = min(max_orderbook_depth,
\* entries available), and each of the N is the result of some draw.
C12_BookPrice ==
    (ret.kind = "price" /\ ~NoBookPrice(ret)) =>
        LET entries == Entries(ret.book, ret.side)
            n == Min(max_orderbook_depth, Len(entries))
            best == { entries[k] : k \in 1..n }
        IN  /\ ~ret.result.raised
            /\ ret.result.price \in best
            /\ \A q \in best : \E pick \in Picks :
                   calculate_order_price(ret.side, TRUE, ret.book, pick, ret.mid)
                       = [raised |-> FALSE, price |-> q]

\* C12 witness: a BUY priced at the last of the best N asks, with a deeper
\* ask in the book.
C12_Witness ==
    /\ ret.kind = "price"
    /\ ret.use_orderbook_prices
    /\ ret.side = BUY
    /\ ret.book.kind = "ok"
    /\ Len(Entries(ret.book, BUY)) > max_orderbook_depth
    /\ ret.result.price = AskLevels[max_orderbook_depth]

\* C17: when the book gives no price and the fallback reads a mid-price, the
\* price is mid * (1 + spread_bps/10000) for a BUY and mid * (1 -
\* spread_bps/10000) for a SELL; with 0 <= spread_bps < 10000 and mid > 0 the
\* BUY price is >= mid, the SELL price <= mid, and both are positive.
C17_FallbackPrice ==
    (ret.kind = "price" /\ NoBookPrice(ret) /\ ret.mid.kind = "val") =>
        /\ ~ret.result.raised
        /\ ret.result.price * BpsDenominator
               = ret.mid.val * (IF ret.side = BUY THEN BpsDenominator + spread_bps
                                ELSE BpsDenominator - spread_bps)
        /\ (ret.mid.val > 0 /\ 0 <= spread_bps /\ spread_bps < BpsDenominator) =>
               /\ ret.side = BUY => ret.result.price >= ret.mid.val
               /\ ret.side = SELL => ret.result.price <= ret.mid.val
               /\ ret.result.price > 0

\* C17 witness: the book read failed and a SELL is priced below the mid-price.
C17_Witness ==
    /\ ret.kind = "price"
    /\ ret.use_orderbook_prices
    /\ ret.book.kind = "raise"
    /\ ret.side = SELL
    /\ ret.mid = [kind |-> "val", val |-> 2]
    /\ ret.result = [raised |-> FALSE, price |-> 1]

=============================================================================
